---- MODULE Spec2Model ----
(***************************************************************************)
(* dwarf-dis: the DWARF expression decoder (src/src/lib.rs) and the loop   *)
(* of the command-line driver that runs it over a buffer (src/src/bin.rs). *)
(*                                                                         *)
(* Values.  A byte is a number in 0..255.  8- and 16-bit operands are      *)
(* integers.  32- and 64-bit words are modelled as the set of the          *)
(* positions (0 = least significant) of their set bits, so the full width  *)
(* of a u64/i64 is kept: a signed word is its two's complement bit         *)
(* pattern.  A Rust panic is an outcome of its own, [kind |-> "Panic"].    *)
(***************************************************************************)
EXTENDS Integers, Sequences, FiniteSets

VARIABLES bytecode, pc, stdout, status, last

vars == <<bytecode, pc, stdout, status, last>>

(***************************************************************************)
(* Bounds of the model: the buffers main is run on.                        *)
(***************************************************************************)
MaxMid == 2
MaxPad == 10

\* first byte of a buffer: every opcode the match names (range edges for the
\* three ranges) and bytes of every gap between them
Heads ==
    (3..47) \cup {48, 79, 80, 111, 112, 127, 143, 144, 145, 146, 147, 148,
                   149, 150, 151, 0, 2, 255}

\* bytes after the first: LEB128 one-byte values 5 and -1, a continuation
\* byte, and 8 (a valid deref size, and the const1u opcode)
MidBytes == {5, 8, 127, 128}

\* the byte a buffer is padded with: nop (a LEB128 continuation byte) or lit0
\* (a LEB128 terminating byte)
FillBytes == {150, 48}

RECURSIVE SeqsUpTo(_, _)
SeqsUpTo(S, n) ==
    IF n = 0 THEN {<<>>}
    ELSE LET shorter == SeqsUpTo(S, n - 1)
         IN  shorter \cup {Append(s, x) : s \in {t \in shorter : Len(t) = n - 1}, x \in S}

Repeat(x, n) == [i \in 1..n |-> x]

BuffersFrom(heads) ==
    {<<>>} \cup
    {<<h>> \o m \o Repeat(f, n) :
        h \in heads, m \in SeqsUpTo(MidBytes, MaxMid), f \in FillBytes, n \in 0..MaxPad}

Buffers == BuffersFrom(Heads)

\* first bytes for the runs of the whole loop: one opcode of each operand
\* shape (none, fixed width of 1 and of 8 bytes, one LEB128, two LEB128, a
\* checked size) and an unknown opcode; MidBytes adds breg15 and breg16
LoopHeads == {150, 8, 3, 35, 146, 148, 255}

LoopBuffers == BuffersFrom(LoopHeads)

(***************************************************************************)
(* Results                                                                 *)
(***************************************************************************)
Panic(site) == [kind |-> "Panic", site |-> site]
Read(sz, val) == [kind |-> "Ok", sz |-> sz, val |-> val]
OkOp(sz, op) == [kind |-> "Ok", sz |-> sz, op |-> op]

\* &bytecode[n..]
Slice(b, n) == SubSeq(b, n + 1, Len(b))

Bit(byte, j) == (byte \div (2 ^ j)) % 2

\* from_le_bytes of the first n bytes, as the set of set bit positions
LEBits(b, n) == {8 * (i - 1) + j : i \in 1..n, j \in 0..7} \cap
                {k \in 0..(8 * n - 1) : Bit(b[(k \div 8) + 1], k % 8) = 1}

(***************************************************************************)
(* Fixed-width readers, lib.rs:9-71                                        *)
(***************************************************************************)
read_u8(b) ==
    IF Len(b) < 1 THEN Panic("index out of bounds") ELSE Read(1, b[1])

read_i8(b) ==
    IF Len(b) < 1 THEN Panic("index out of bounds")
    ELSE Read(1, IF b[1] >= 128 THEN b[1] - 256 ELSE b[1])

read_u16(b) ==
    IF Len(b) < 2 THEN Panic("range end index out of bounds")
    ELSE Read(2, b[1] + 256 * b[2])

read_i16(b) ==
    IF Len(b) < 2 THEN Panic("range end index out of bounds")
    ELSE LET u == b[1] + 256 * b[2]
         IN  Read(2, IF u >= 32768 THEN u - 65536 ELSE u)

read_u32(b) ==
    IF Len(b) < 4 THEN Panic("range end index out of bounds")
    ELSE Read(4, LEBits(b, 4))

read_i32(b) ==
    IF Len(b) < 4 THEN Panic("range end index out of bounds")
    ELSE Read(4, LEBits(b, 4))

read_u64(b) ==
    IF Len(b) < 8 THEN Panic("range end index out of bounds")
    ELSE Read(8, LEBits(b, 8))

read_i64(b) ==
    IF Len(b) < 8 THEN Panic("range end index out of bounds")
    ELSE Read(8, LEBits(b, 8))

(***************************************************************************)
(* LEB128 readers, lib.rs:73-90.  ULEB128::read_from / SLEB128::read_from  *)
(* are the nano_leb128 crate's: 7 bits a byte, least significant group     *)
(* first, ending at the first byte whose high bit is clear; an error when  *)
(* the slice ends first or the value does not fit 64 bits.                 *)
(***************************************************************************)
LebErr(why) == [kind |-> "Err", why |-> why]
LebOk(val, len) == [kind |-> "Ok", val |-> val, len |-> len]

\* (byte & 0x7f) << shift, in 64 bits
ShiftedBits(byte, shift) == {shift + j : j \in {i \in 0..6 : Bit(byte, i) = 1}} \cap (0..63)

RECURSIVE uleb_loop(_, _, _, _)
uleb_loop(buf, len, shift, val) ==
    IF len >= Len(buf) THEN LebErr("BufferOverflow")
    ELSE LET byte == buf[len + 1]
         IN  IF shift = 63 /\ byte # 0 /\ byte # 1 THEN LebErr("IntegerOverflow")
             ELSE LET v == val \cup ShiftedBits(byte, shift)
                  IN  IF byte < 128 THEN LebOk(v, len + 1)
                      ELSE uleb_loop(buf, len + 1, shift + 7, v)

RECURSIVE sleb_loop(_, _, _, _)
sleb_loop(buf, len, shift, val) ==
    IF len >= Len(buf) THEN LebErr("BufferOverflow")
    ELSE LET byte == buf[len + 1]
         IN  IF shift = 63 /\ byte # 0 /\ byte # 127 THEN LebErr("IntegerOverflow")
             ELSE LET v == val \cup ShiftedBits(byte, shift)
                      s == shift + 7
                  IN  IF byte < 128
                      THEN LebOk(IF s < 64 /\ Bit(byte, 6) = 1 THEN v \cup (s..63) ELSE v,
                                 len + 1)
                      ELSE sleb_loop(buf, len + 1, s, v)

\* the length of the slice the expect message formats: &bytecode[..10]
ExpectMsgBytes == 10

\* read_from runs first, then the argument of expect is built (the slice
\* &bytecode[..10] is taken whether or not read_from failed), then expect
read_uleb128(b) ==
    LET r == uleb_loop(b, 0, 0, {})
    IN  IF Len(b) < ExpectMsgBytes THEN Panic("range end index out of bounds")
        ELSE IF r.kind = "Err" THEN Panic("Could not read uleb128 value")
        ELSE Read(r.len, r.val)

read_sleb128(b) ==
    LET r == sleb_loop(b, 0, 0, {})
    IN  IF Len(b) < ExpectMsgBytes THEN Panic("range end index out of bounds")
        ELSE IF r.kind = "Err" THEN Panic("Could not read sleb128 value")
        ELSE Read(r.len, r.val)

(***************************************************************************)
(* enum Op, lib.rs:111-161: a variant and its operands                     *)
(***************************************************************************)
Op0(tag) == [tag |-> tag, args |-> <<>>]
Op1(tag, a) == [tag |-> tag, args |-> <<a>>]
Op2(tag, a, b) == [tag |-> tag, args |-> <<a, b>>]

\* Err(DwarfDisError::Decode(op)), lib.rs:93-95
DecodeError(op) == [kind |-> "Err", err |-> [tag |-> "Decode", op |-> op]]

(***************************************************************************)
(* decode, lib.rs:218-383                                                  *)
(***************************************************************************)
\* a decoder that starts counting at 0: let mut sz = 0
OpcodeSizeZero == 1 - 1

\* let mut sz = 1
OpcodeSize == 1

\* an arm that forgets `sz += data_sz`
OperandNotCounted(r, sz, tag) ==
    IF r.kind = "Panic" THEN r ELSE OkOp(sz, Op1(tag, r.val))

\* one operand read at &bytecode[sz..]: sz += data_sz; Op::tag(res)
Operand(r, sz, tag) ==
    IF r.kind = "Panic" THEN r ELSE OkOp(sz + r.sz, Op1(tag, r.val))

\* 0x70..=0x8f
BaseReg(b, op, sz) ==
    LET r == read_sleb128(Slice(b, sz))
    IN  IF r.kind = "Panic" THEN r ELSE OkOp(sz + r.sz, Op2("BReg", op - 112, r.val))

\* 0x92: a ULEB128 register, then a SLEB128 offset after it
BaseRegX(b, sz) ==
    LET reg == read_uleb128(Slice(b, sz))
    IN  IF reg.kind = "Panic" THEN reg
        ELSE LET off == read_sleb128(Slice(b, sz + reg.sz))
             IN  IF off.kind = "Panic" THEN off
                 ELSE OkOp(sz + reg.sz + off.sz, Op2("BRegX", reg.val, off.val))

\* 0x94: assert!([1, 2, 4, 8].contains(&deref_sz))
DerefSizeOp(b, sz) ==
    LET r == read_u8(Slice(b, sz))
    IN  IF r.kind = "Panic" THEN r
        ELSE IF r.val \notin {1, 2, 4, 8} THEN Panic("assertion failed")
        ELSE OkOp(sz + r.sz, Op1("DerefSize", r.val))

\* a default arm that gives up: _ => unimplemented!()
UnknownOpcodePanics(op) == Panic("not implemented")

\* the arm `_`
UnknownOpcode(op) == DecodeError(op)

decode(b) ==
    IF Len(b) < 1 THEN Panic("index out of bounds")
    ELSE
    LET op == b[1]
        sz == OpcodeSize
        rest == Slice(b, sz)
    IN  CASE op = 3 -> Operand(read_u64(rest), sz, "Addr")
          [] op = 6 -> OkOp(sz, Op0("Deref"))
          [] op = 8 -> Operand(read_u8(rest), sz, "Const1u")
          [] op = 9 -> Operand(read_i8(rest), sz, "Const1s")
          [] op = 10 -> Operand(read_u16(rest), sz, "Const2u")
          [] op = 11 -> Operand(read_i16(rest), sz, "Const2s")
          [] op = 12 -> Operand(read_u32(rest), sz, "Const4u")
          [] op = 13 -> Operand(read_i32(rest), sz, "Const4s")
          [] op = 14 -> Operand(read_u64(rest), sz, "Const8u")
          [] op = 15 -> Operand(read_i64(rest), sz, "Const8s")
          [] op = 16 -> Operand(read_uleb128(rest), sz, "Constu")
          [] op = 17 -> Operand(read_sleb128(rest), sz, "Consts")
          [] op = 18 -> OkOp(sz, Op0("Dup"))
          [] op = 19 -> OkOp(sz, Op0("Drop"))
          [] op = 20 -> OkOp(sz, Op0("Over"))
          [] op = 21 -> Operand(read_u8(rest), sz, "Pick")
          [] op = 22 -> OkOp(sz, Op0("Swap"))
          [] op = 23 -> OkOp(sz, Op0("Rot"))
          [] op = 25 -> OkOp(sz, Op0("Abs"))
          [] op = 26 -> OkOp(sz, Op0("And"))
          [] op = 27 -> OkOp(sz, Op0("Div"))
          [] op = 28 -> OkOp(sz, Op0("Minus"))
          [] op = 29 -> OkOp(sz, Op0("Mod"))
          [] op = 30 -> OkOp(sz, Op0("Mul"))
          [] op = 31 -> OkOp(sz, Op0("Neg"))
          [] op = 32 -> OkOp(sz, Op0("Not"))
          [] op = 33 -> OkOp(sz, Op0("Or"))
          [] op = 34 -> OkOp(sz, Op0("Plus"))
          [] op = 35 -> Operand(read_uleb128(rest), sz, "PlusConst")
          [] op = 36 -> OkOp(sz, Op0("Shl"))
          [] op = 37 -> OkOp(sz, Op0("Shr"))
          [] op = 38 -> OkOp(sz, Op0("Shra"))
          [] op = 39 -> OkOp(sz, Op0("Xor"))
          [] op = 40 -> Operand(read_i16(rest), sz, "Bra")
          [] op = 41 -> OkOp(sz, Op0("Eq"))
          [] op = 42 -> OkOp(sz, Op0("Ge"))
          [] op = 43 -> OkOp(sz, Op0("Gt"))
          [] op = 44 -> OkOp(sz, Op0("Le"))
          [] op = 45 -> OkOp(sz, Op0("Lt"))
          [] op = 46 -> OkOp(sz, Op0("Ne"))
          [] op = 47 -> Operand(read_i16(rest), sz, "Skip")
          [] op \in 48..79 -> OkOp(sz, Op1("Lit", op - 48))
          [] op \in 80..111 -> OkOp(sz, Op1("Reg", op - 80))
          [] op \in 112..143 -> BaseReg(b, op, sz)
          [] op = 144 -> Operand(read_uleb128(rest), sz, "RegX")
          [] op = 146 -> BaseRegX(b, sz)
          [] op = 148 -> DerefSizeOp(b, sz)
          [] op = 150 -> OkOp(sz, Op0("Nop"))
          [] OTHER -> UnknownOpcode(op)

(***************************************************************************)
(* main, bin.rs:19-32: the loop over the buffer read from the file         *)
(***************************************************************************)
NoCall == [input |-> <<>>, at |-> 0, res |-> [kind |-> "None"]]

\* before the file named on the command line is read (the usage check of
\* the arguments and a failing fs::read end the process before the loop)
Init ==
    /\ bytecode = <<>>
    /\ pc = 0
    /\ stdout = <<>>
    /\ status = "start"
    /\ last = NoCall

\* let bytecode = fs::read(&args[1]); let mut pc = 0
ReadFrom(buffers) ==
    /\ status = "start"
    /\ bytecode' \in buffers
    /\ pc' = 0
    /\ status' = "running"
    /\ UNCHANGED <<stdout, last>>

ReadFile == ReadFrom(Buffers)

ReadLoopFile == ReadFrom(LoopBuffers)

\* the call of one iteration: decode(&bytecode[pc..])
Call == decode(Slice(bytecode, pc))

\* if pc >= bytecode.len() { break; }
Break ==
    /\ status = "running"
    /\ pc >= Len(bytecode)
    /\ status' = "exited"
    /\ UNCHANGED <<bytecode, pc, stdout, last>>

\* decode returned Ok((sz, op)): the line is printed and pc += sz
StepOk ==
    /\ status = "running"
    /\ pc < Len(bytecode)
    /\ Call.kind = "Ok"
    /\ stdout' = Append(stdout, <<pc, Call.op>>)
    /\ pc' = pc + Call.sz
    /\ last' = [input |-> Slice(bytecode, pc), at |-> pc, res |-> Call]
    /\ UNCHANGED <<bytecode, status>>

\* decode returned Err(e): unwrap panics
StepErr ==
    /\ status = "running"
    /\ pc < Len(bytecode)
    /\ Call.kind = "Err"
    /\ status' = "panicked"
    /\ last' = [input |-> Slice(bytecode, pc), at |-> pc, res |-> Call]
    /\ UNCHANGED <<bytecode, pc, stdout>>

\* decode itself panicked
StepPanic ==
    /\ status = "running"
    /\ pc < Len(bytecode)
    /\ Call.kind = "Panic"
    /\ status' = "panicked"
    /\ last' = [input |-> Slice(bytecode, pc), at |-> pc, res |-> Call]
    /\ UNCHANGED <<bytecode, pc, stdout>>

Loop == Break \/ StepOk \/ StepErr \/ StepPanic

Next == ReadFile \/ Loop

Spec == Init /\ [][Next]_vars

\* the runs over the buffers of LoopBuffers
NextLoop == ReadLoopFile \/ Loop

\* the loop is sequential code with nothing to wait for: it keeps stepping
FairSpec == Init /\ [][NextLoop]_vars /\ WF_vars(NextLoop)

(***************************************************************************)
(* The instruction format, stated apart from decode: what the properties   *)
(* below compare the decoder with.                                         *)
(***************************************************************************)
NoOperandOpcodes == {6, 18, 19, 20, 22, 23} \cup (25..34) \cup (36..39) \cup (41..46) \cup {150}
LitOpcodes == 48..79
RegOpcodes == 80..111
BRegOpcodes == 112..143
UlebOpcodes == {16, 35, 144}
SlebOpcodes == {17} \cup BRegOpcodes
BRegXOpcode == 146
DerefSizeOpcode == 148
FixedOpcodes == {3, 8, 9, 10, 11, 12, 13, 14, 15, 21, 40, 47, DerefSizeOpcode}
SupportedOpcodes ==
    NoOperandOpcodes \cup LitOpcodes \cup RegOpcodes \cup UlebOpcodes \cup SlebOpcodes
        \cup FixedOpcodes \cup {BRegXOpcode}

FixedWidth(op) ==
    CASE op \in {3, 14, 15} -> 8
      [] op \in {12, 13} -> 4
      [] op \in {10, 11, 40, 47} -> 2
      [] op \in {8, 9, 21, DerefSizeOpcode} -> 1

\* the length of the LEB128 encoding that starts at s[from + 1]; 0 when no
\* byte with a clear high bit follows
LebLen(s, from) ==
    LET ends == {k \in (from + 1)..Len(s) : s[k] < 128}
    IN  IF ends = {} THEN 0
        ELSE (CHOOSE k \in ends : \A j \in ends : k <= j) - from

\* a terminated encoding whose value fits 64 bits
LebFits(s, from, signed) ==
    LET n == LebLen(s, from)
    IN  /\ n >= 1
        /\ n <= 10
        /\ n = 10 => s[from + 10] \in (IF signed THEN {0, 127} ELSE {0, 1})

\* the value of the encoding at s[from + 1], as a 64-bit pattern
LebValue(s, from, signed) ==
    LET n == LebLen(s, from)
        groups == {7 * (i - 1) + j : i \in 1..n, j \in 0..6}
        low == {k \in groups : Bit(s[from + (k \div 7) + 1], k % 7) = 1} \cap (0..63)
    IN  IF signed /\ Bit(s[from + n], 6) = 1 THEN low \cup ((7 * n)..63) ELSE low

\* the operand bytes the instruction at s[from + 1] is made of; -1 when its
\* operand is cut short by the end of the buffer or is not a valid one
OperandBytes(s, from) ==
    LET op == s[from + 1]
    IN  CASE op \in NoOperandOpcodes \cup LitOpcodes \cup RegOpcodes -> 0
          [] op \in FixedOpcodes ->
                IF from + 1 + FixedWidth(op) > Len(s) THEN -1
                ELSE IF op = DerefSizeOpcode /\ s[from + 2] \notin {1, 2, 4, 8} THEN -1
                ELSE FixedWidth(op)
          [] op \in UlebOpcodes ->
                IF LebFits(s, from + 1, FALSE) THEN LebLen(s, from + 1) ELSE -1
          [] op \in SlebOpcodes ->
                IF LebFits(s, from + 1, TRUE) THEN LebLen(s, from + 1) ELSE -1
          [] op = BRegXOpcode ->
                IF ~LebFits(s, from + 1, FALSE) THEN -1
                ELSE LET n == LebLen(s, from + 1)
                     IN  IF LebFits(s, from + 1 + n, TRUE)
                         THEN n + LebLen(s, from + 1 + n) ELSE -1
          [] OTHER -> -1

\* the offsets of the instructions of a buffer made of valid instructions
\* only, in order; <<-1>> when it is not such a buffer
RECURSIVE Boundaries(_, _)
Boundaries(s, from) ==
    IF from = Len(s) THEN <<>>
    ELSE IF OperandBytes(s, from) < 0 THEN <<-1>>
    ELSE LET tail == Boundaries(s, from + 1 + OperandBytes(s, from))
         IN  IF tail = <<-1>> THEN tail ELSE <<from>> \o tail

WellFormed(s) == Boundaries(s, 0) # <<-1>>

Called == last.res.kind # "None"
LastOpcode == last.input[1]

\* a mandatory operand of the leading opcode runs past the end of the buffer
OperandPastEnd(s) ==
    LET op == s[1]
    IN  \/ op \in FixedOpcodes /\ 1 + FixedWidth(op) > Len(s)
        \/ op \in UlebOpcodes \cup SlebOpcodes /\ LebLen(s, 1) = 0
        \/ op = BRegXOpcode /\ (LebLen(s, 1) = 0 \/ LebLen(s, 1 + LebLen(s, 1)) = 0)

SameOutcome(r1, r2) ==
    /\ r1.kind = r2.kind
    /\ r1.kind = "Ok" => /\ r1.sz = r2.sz
                         /\ r1.op.tag = r2.op.tag
                         /\ r1.op.args = r2.op.args

(***************************************************************************)
(* Properties                                                              *)
(***************************************************************************)

\* C1: a call whose leading opcode needs a fixed-width or LEB128 operand that
\* runs past the end of the buffer returns the error Truncated (an error
\* value other than the unknown-opcode one), never a panic.
C1_TruncatedIsAnError ==
    (Called /\ OperandPastEnd(last.input)) =>
        (last.res.kind = "Err" /\ last.res.err.tag = "Truncated")

\* C2: a buffer that is one opcode taking a single LEB128 operand (constu,
\* consts, plus_uconst, regx, breg0..breg31) followed by exactly one terminated
\* LEB128 encoding decodes to size 1 + the encoded length with the encoded
\* value, as decode([0x23, 0x05]) = (2, PlusConst(5)).
C2_SingleLebInstruction ==
    (/\ Called
     /\ LastOpcode \in UlebOpcodes \cup SlebOpcodes
     /\ LebFits(last.input, 1, LastOpcode \in SlebOpcodes)
     /\ 1 + LebLen(last.input, 1) = Len(last.input)) =>
        /\ last.res.kind = "Ok"
        /\ last.res.sz = Len(last.input)
        /\ last.res.op.args[Len(last.res.op.args)]
              = LebValue(last.input, 1, LastOpcode \in SlebOpcodes)

\* C3: deref_size (0x94) and xderef_size (0x95) with an 8-bit operand: the
\* result is DerefSize(value) when the value is 1, 2, 4 or 8 and the error
\* InvalidOperandSize for every other value.
C3_DerefSizeOperand ==
    (Called /\ LastOpcode \in {DerefSizeOpcode, 149} /\ Len(last.input) >= 2) =>
        IF last.input[2] \in {1, 2, 4, 8}
        THEN /\ last.res.kind = "Ok"
             /\ last.res.op.tag = "DerefSize"
             /\ last.res.op.args = <<last.input[2]>>
        ELSE /\ last.res.kind = "Err"
             /\ last.res.err.tag = "InvalidOperandSize"

\* C4: over a buffer that is the concatenation of N valid instructions the
\* pass ends having produced exactly N records, at the instructions' offsets
\* (first 0, gapless, the last one ending at the buffer's length).
C4_OneRecordPerInstruction ==
    (WellFormed(bytecode) /\ status \notin {"start", "running"}) =>
        /\ status = "exited"
        /\ Len(stdout) = Len(Boundaries(bytecode, 0))
        /\ \A i \in 1..Len(stdout) : stdout[i][1] = Boundaries(bytecode, 0)[i]

\* C5: when decode fails the pass stops there without crashing the process,
\* and the records decoded before the failure are kept.
C5_FailureDoesNotCrash ==
    (Called /\ last.res.kind # "Ok") =>
        /\ status \notin {"running", "panicked"}
        /\ \A i \in 1..Len(stdout) : stdout[i][1] < last.at

\* C6: a buffer whose first byte is no supported opcode gives the
\* unknown-opcode error carrying that byte, whatever follows it.
C6_UnknownOpcode ==
    (Called /\ LastOpcode \notin SupportedOpcodes) =>
        /\ last.res.kind = "Err"
        /\ last.res.err.tag = "Decode"
        /\ last.res.err.op = LastOpcode

C6_Witness ==
    /\ Called
    /\ LastOpcode = 5
    /\ last.at > 0
    /\ Len(last.input) > 1
    /\ last.res.kind = "Err"
    /\ last.res.err.op = 5

\* C7: the size of a successful decode is at least 1, at most the length of
\* the buffer, and 1 plus the operand bytes of the opcode's format (the fixed
\* width, the LEB128 length, or both LEB128 lengths for bregx).
C7_SizeIsExact ==
    (Called /\ last.res.kind = "Ok") =>
        /\ last.res.sz >= 1
        /\ last.res.sz <= Len(last.input)
        /\ last.res.sz = 1 + OperandBytes(last.input, 0)

C7_Witness ==
    /\ Called
    /\ last.res.kind = "Ok"
    /\ last.res.op.tag = "BRegX"
    /\ last.res.sz = 4
    /\ Len(last.input) > 4

\* C8: an opcode b in 0x30..=0x4f decodes to (1, Lit(b - 0x30)), one in
\* 0x50..=0x6f to (1, Reg(b - 0x50)), and one in 0x70..=0x8f followed by a
\* SLEB128 offset to BReg(b - 0x70, offset) with size 1 + its length.
C8_RangeOpcodes ==
    /\ (Called /\ LastOpcode \in LitOpcodes) =>
          /\ last.res.kind = "Ok"
          /\ last.res.sz = 1
          /\ last.res.op = Op1("Lit", LastOpcode - 48)
    /\ (Called /\ LastOpcode \in RegOpcodes) =>
          /\ last.res.kind = "Ok"
          /\ last.res.sz = 1
          /\ last.res.op = Op1("Reg", LastOpcode - 80)
    /\ (Called /\ LastOpcode \in BRegOpcodes /\ LebFits(last.input, 1, TRUE)) =>
          /\ last.res.kind = "Ok"
          /\ last.res.sz = 1 + LebLen(last.input, 1)
          /\ last.res.op = Op2("BReg", LastOpcode - 112, LebValue(last.input, 1, TRUE))

\* C9: the loop terminates: a step of a running pass ends the pass or moves
\* the offset forward by at least 1, the offset never passes the end of the
\* buffer, and a pass that ends without an error ends at the buffer's length.
C9_LoopTerminates ==
    /\ [][(status = "running" /\ status' = "running") => pc' >= pc + 1]_vars
    /\ [](pc <= Len(bytecode))
    /\ [](status = "exited" => pc = Len(bytecode))
    /\ <>(status \in {"exited", "panicked"})

C9_Witness ==
    /\ status = "exited"
    /\ Len(stdout) >= 3
    /\ \E i \in 1..Len(stdout) : stdout[i][2].tag \in {"PlusConst", "BReg"}

\* C10: a successful decode depends only on the bytes it consumed: the same
\* bytes alone, and the buffer with more bytes appended, decode to the same
\* size and Op.
C10_PrefixLocality ==
    (Called /\ last.res.kind = "Ok") =>
        /\ SameOutcome(decode(SubSeq(last.input, 1, last.res.sz)), last.res)
        /\ \A x \in FillBytes : SameOutcome(decode(Append(last.input, x)), last.res)

====
